---------------------------- MODULE Spec2Model ----------------------------
(***************************************************************************)
(* A model of ConPyCon's console (conpycon/console.py): the raw-key line   *)
(* editor Console._prompt, the command loop Console.run, Console._dispatch *)
(* and the helper _lcp.                                                    *)
(*                                                                         *)
(* Strings are sequences of one-character strings ("ab" is <<"a","b">>).   *)
(* The module argparse is taken to be Python's standard argparse (the      *)
(* source uses it in console.py without importing it), and the key source  *)
(* conpycon.get_key, a module the package imports but does not ship, is    *)
(* taken from the specification: one logical key event per call.           *)
(***************************************************************************)
EXTENDS Integers, Sequences, FiniteSets, TLC

VARIABLES
    pc,         \* where run is: Idle | Reading | Dispatching | Returned | Handling
                \* | Exited | Raised
    parsers,    \* self._parsers: sequence of [prog, action]
    root_node,  \* self._root_node: the command tree used by completion
    history,    \* self.history, most recent first
    cmd,        \* _prompt: the current command buffer
    cmd_idx,    \* _prompt: the position within the buffer
    cmd_cpy,    \* _prompt: the copy of the buffer taken on the first Up
    hist_idx,   \* _prompt: the history index, -1 for "not searching"
    term,       \* the terminal line the cursor is on: [row, col]
    cmd_str,    \* run: the committed line after strip()
    cmd_parse,  \* run: the tokens of the committed line
    exc,        \* the exception being handled, or the one that ended run
    calls,      \* what the call of _dispatch of this iteration invoked
    fn,         \* a call of a pure helper: [op, arg, res]
    command_parser  \* a CommandParser of parser.py, or NoParser

vars == <<pc, parsers, root_node, history, cmd, cmd_idx, cmd_cpy, hist_idx,
          term, cmd_str, cmd_parse, exc, calls, fn, command_parser>>

editor == <<cmd, cmd_idx, cmd_cpy, hist_idx>>

-----------------------------------------------------------------------------
(* Program constants and bounds.                                           *)

MAX_CMD_LEN == 1024
MAX_HIST_LEN == 20

\* The key-level console types a character only while the buffer is shorter
\* than this.
MaxLen == 2
\* The model commits lines key by key while the history is shorter than this.
MaxHist == 1
\* The most tokens, and the most strings, handed to a pure helper.
MaxArgs == 2

-----------------------------------------------------------------------------
(* Characters and strings.                                                 *)

BS == "BS"     \* the control character '\b'
NL == "\n"
TAB == "\t"

LowerAZ == <<"a","b","c","d","e","f","g","h","i","j","k","l","m",
             "n","o","p","q","r","s","t","u","v","w","x","y","z">>
UpperAZ == <<"A","B","C","D","E","F","G","H","I","J","K","L","M",
             "N","O","P","Q","R","S","T","U","V","W","X","Y","Z">>

Range(s) == {s[i] : i \in 1..Len(s)}

\* str.upper(), character by character.
UpperChar(c) ==
    IF \E i \in 1..26 : LowerAZ[i] = c
    THEN UpperAZ[CHOOSE i \in 1..26 : LowerAZ[i] = c]
    ELSE c

Upper(s) == [i \in 1..Len(s) |-> UpperChar(s[i])]

\* The characters str.strip() removes and shlex takes as separators.
Whitespace == {" ", "\t", "\n", "\r"}

RECURSIVE LStrip(_)
LStrip(s) ==
    IF s # <<>> /\ Head(s) \in Whitespace THEN LStrip(Tail(s)) ELSE s

RECURSIVE RStrip(_)
RStrip(s) ==
    IF s # <<>> /\ s[Len(s)] \in Whitespace
    THEN RStrip(SubSeq(s, 1, Len(s) - 1))
    ELSE s

\* str.strip()
Strip(s) == RStrip(LStrip(s))

\* s.startswith(t)
StartsWith(s, t) == Len(t) <= Len(s) /\ SubSeq(s, 1, Len(t)) = t

\* Python's s[:n] for 0 <= n
Take(s, n) == SubSeq(s, 1, IF n < Len(s) THEN n ELSE Len(s))

\* Python's s[n:] for 0 <= n
Drop(s, n) == SubSeq(s, n + 1, Len(s))

\* "".join(ss), joined by halves so that long sequences stay shallow.
RECURSIVE Flatten(_)
Flatten(ss) ==
    IF ss = <<>> THEN <<>>
    ELSE IF Len(ss) = 1 THEN ss[1]
    ELSE LET h == Len(ss) \div 2 IN
         Flatten(SubSeq(ss, 1, h)) \o Flatten(SubSeq(ss, h + 1, Len(ss)))

-----------------------------------------------------------------------------
(* shlex.split(s): the posix lexer with whitespace_split and no comments.  *)

Quotes == {"'", "\""}
Escape == {"\\"}
EscapedQuotes == {"\""}

\* The outcome of shlex.split: the tokens, or ValueError.
SplitOk(toks) == [ok |-> TRUE, toks |-> toks]
SplitError == [ok |-> FALSE, toks |-> <<>>]

\* shlex.read_token, run over the whole string: state is shlex's state (" ",
\* "a", a quote or the escape character), quoted its flag for the token read.
RECURSIVE Lex(_, _, _, _, _, _, _)
Lex(s, i, state, escapedstate, token, quoted, toks) ==
    IF i > Len(s)
    THEN IF state \in Quotes \cup Escape
         THEN SplitError
         ELSE IF token # <<>> \/ quoted
              THEN SplitOk(Append(toks, token))
              ELSE SplitOk(toks)
    ELSE LET c == s[i] IN
         IF state = " "
         THEN IF c \in Whitespace
              THEN Lex(s, i + 1, " ", escapedstate, token, quoted, toks)
              ELSE IF c \in Escape
              THEN Lex(s, i + 1, c, "a", token, quoted, toks)
              ELSE IF c \in Quotes
              THEN Lex(s, i + 1, c, escapedstate, token, quoted, toks)
              ELSE Lex(s, i + 1, "a", escapedstate, <<c>>, quoted, toks)
         ELSE IF state \in Quotes
         THEN IF c = state
              THEN Lex(s, i + 1, "a", escapedstate, token, TRUE, toks)
              ELSE IF c \in Escape /\ state \in EscapedQuotes
              THEN Lex(s, i + 1, c, state, token, TRUE, toks)
              ELSE Lex(s, i + 1, state, escapedstate, Append(token, c), TRUE, toks)
         ELSE IF state \in Escape
         THEN LET kept == IF escapedstate \in Quotes /\ c # state /\ c # escapedstate
                          THEN Append(token, state)
                          ELSE token
              IN  Lex(s, i + 1, escapedstate, escapedstate, Append(kept, c), quoted, toks)
         ELSE \* state = "a"
              IF c \in Whitespace
              THEN IF token # <<>> \/ quoted
                   THEN Lex(s, i + 1, " ", escapedstate, <<>>, FALSE, Append(toks, token))
                   ELSE Lex(s, i + 1, " ", escapedstate, token, quoted, toks)
              ELSE IF c \in Quotes
              THEN Lex(s, i + 1, c, escapedstate, token, quoted, toks)
              ELSE IF c \in Escape
              THEN Lex(s, i + 1, c, "a", token, quoted, toks)
              ELSE Lex(s, i + 1, "a", escapedstate, Append(token, c), quoted, toks)

ShlexSplit(s) == Lex(s, 1, " ", " ", <<>>, FALSE, <<>>)

\* The characters shlex.quote leaves unquoted: [A-Za-z0-9_@%+=:,./-].
SafeChars == Range(LowerAZ) \cup Range(UpperAZ)
             \cup {"0","1","2","3","4","5","6","7","8","9"}
             \cup {"_", "@", "%", "+", "=", ":", ",", ".", "/", "-"}

\* shlex.quote(s)
ShlexQuote(s) ==
    IF s = <<>>
    THEN <<"'", "'">>
    ELSE IF \A i \in 1..Len(s) : s[i] \in SafeChars
    THEN s
    ELSE <<"'">>
         \o Flatten([i \in 1..Len(s) |->
                IF s[i] = "'" THEN <<"'", "\"", "'", "\"", "'">> ELSE <<s[i]>>])
         \o <<"'">>

\* shlex.join(parse): ' '.join(quote(arg) for arg in parse)
RECURSIVE ShlexJoin(_)
ShlexJoin(parse) ==
    IF parse = <<>> THEN <<>>
    ELSE IF Len(parse) = 1 THEN ShlexQuote(parse[1])
    ELSE ShlexQuote(parse[1]) \o <<" ">> \o ShlexJoin(Tail(parse))

-----------------------------------------------------------------------------
(* The terminal: the cells of the line the cursor is on, and the cursor    *)
(* column. A cell never written, or overwritten by a space, is blank.      *)

DEFAULT_PROMPT == <<">", " ">>

\* The row without its trailing blank cells.
TrimBlank(row) ==
    IF row = <<>> \/ row[Len(row)] # " "
    THEN row
    ELSE LET last == CHOOSE i \in 0..Len(row) :
                        /\ i = 0 \/ row[i] # " "
                        /\ \A j \in (i + 1)..Len(row) : row[j] = " "
         IN  SubSeq(row, 1, last)

Blanks(n) == [i \in 1..n |-> " "]

Repeat(s, n) == Flatten([i \in 1..n |-> s])

\* One character written to the terminal.
Put(t, ch) ==
    IF ch = BS THEN [t EXCEPT !.col = IF @ > 0 THEN @ - 1 ELSE 0]
    ELSE IF ch = NL THEN [row |-> <<>>, col |-> 0]
    ELSE IF ch = TAB THEN [t EXCEPT !.col = ((@ \div 8) + 1) * 8]
    ELSE LET wide == IF t.col < Len(t.row)
                     THEN t.row
                     ELSE t.row \o Blanks(t.col + 1 - Len(t.row))
         IN  [row |-> TrimBlank([wide EXCEPT ![t.col + 1] = ch]),
              col |-> t.col + 1]

\* print(s, end=""), character by character from left to right: the first
\* half of s is written (the column is then known), and then the second.
RECURSIVE Prints(_, _)
Prints(t, s) ==
    IF s = <<>> THEN t
    ELSE IF Len(s) = 1 THEN Put(t, s[1])
    ELSE LET h == Len(s) \div 2
             mid == Prints(t, SubSeq(s, 1, h))
         IN  IF mid.col >= 0 THEN Prints(mid, SubSeq(s, h + 1, Len(s))) ELSE mid

-----------------------------------------------------------------------------
(* _lcp and the completion walk of the Tab key.                            *)

Min(S) == CHOOSE x \in S : \A y \in S : x <= y

\* The loop of _lcp running over the first string, not the shortest.
RECURSIVE LcpLoop_FirstLen(_, _, _)
LcpLoop_FirstLen(l, i, min_l) ==
    IF i >= Len(l[1])
    THEN l[1]
    ELSE IF ~ \A k \in 1..Len(l) : i + 1 <= Len(l[k]) /\ l[k][i + 1] = l[1][i + 1]
    THEN Take(l[1], i + 1)
    ELSE LcpLoop_FirstLen(l, i + 1, min_l)

\* The loop of _lcp from index i (0-based, as in the source).
RECURSIVE LcpLoop(_, _, _)
LcpLoop(l, i, min_l) ==
    IF i >= min_l
    THEN Take(l[1], min_l)
    ELSE IF ~ \A k \in 1..Len(l) : l[k][i + 1] = l[1][i + 1]
    THEN Take(l[1], i)
    ELSE LcpLoop(l, i + 1, min_l)

_lcp(l) ==
    IF l = <<>>
    THEN <<>>
    ELSE LcpLoop(l, 0, Min({Len(l[k]) : k \in 1..Len(l)}))

\* CommandNode(name) and add_child.
CommandNode(name) == [name |-> name, children |-> <<>>]
add_child(node, child) == [node EXCEPT !.children = Append(@, child)]

\* s[::-1]
Reversed(s) == [i \in 1..Len(s) |-> s[Len(s) + 1 - i]]

\* for child in children: q.insert(0, child)
RECURSIVE InsertFront(_, _)
InsertFront(q, children) ==
    IF children = <<>> THEN q ELSE InsertFront(<<Head(children)>> \o q, Tail(children))

\* The loop of find putting the children at the back of q.
RECURSIVE FindLoop_Append(_, _)
FindLoop_Append(q, name) ==
    IF q = <<>>
    THEN <<>>
    ELSE IF q[1].name = name
    THEN <<q[1]>>
    ELSE FindLoop_Append(Tail(q) \o q[1].children, name)

\* The loop "while q" of find. What find returns is a sequence: the node
\* found, or nothing for None.
RECURSIVE FindLoop(_, _)
FindLoop(q, name) ==
    IF q = <<>>
    THEN <<>>
    ELSE IF q[1].name = name
    THEN <<q[1]>>
    ELSE FindLoop(InsertFront(Tail(q), Reversed(q[1].children)), name)

\* node.find(name)
find(node, name) == FindLoop(<<node>>, name)

\* [c for c in cur_node.children if c.name.startswith(token)]
MatchNodes(cur_node, token) ==
    SelectSeq(cur_node.children, LAMBDA c : StartsWith(c.name, token))

\* The walk going down into the last matching child, not the first.
RECURSIVE WalkLoop_LastMatch(_, _, _, _)
WalkLoop_LastMatch(cur_node, parse, k, match_nodes) ==
    IF k > Len(parse)
    THEN match_nodes
    ELSE LET m == MatchNodes(cur_node, parse[k]) IN
         IF m = <<>> THEN m ELSE WalkLoop_LastMatch(m[Len(m)], parse, k + 1, m)

\* The walk keeping the matches of the token before when a token has none.
RECURSIVE WalkLoop_KeepLast(_, _, _, _)
WalkLoop_KeepLast(cur_node, parse, k, match_nodes) ==
    IF k > Len(parse)
    THEN match_nodes
    ELSE LET m == MatchNodes(cur_node, parse[k]) IN
         IF m = <<>> THEN match_nodes ELSE WalkLoop_KeepLast(m[1], parse, k + 1, m)

\* The loop "for token in parse" of the Tab key from token k on: match_nodes
\* when the loop ends, by exhaustion or by its break.
RECURSIVE WalkLoop(_, _, _, _)
WalkLoop(cur_node, parse, k, match_nodes) ==
    IF k > Len(parse)
    THEN match_nodes
    ELSE LET m == MatchNodes(cur_node, parse[k]) IN
         IF m = <<>> THEN m ELSE WalkLoop(m[1], parse, k + 1, m)

\* match_nodes after the walk over a non-empty parse.
TabWalk(root, parse) == WalkLoop(root, parse, 1, <<>>)

NodeNames(nodes) == [i \in 1..Len(nodes) |-> nodes[i].name]

\* The outcome of the walk with the token typed as the fill of a single match.
Completion_FillToken(root, parse) ==
    LET match_nodes == TabWalk(root, parse) IN
    IF match_nodes = <<>>
    THEN [kind |-> "NoMatch", names |-> <<>>, fill |-> <<>>]
    ELSE IF Len(match_nodes) = 1
    THEN [kind |-> "SingleMatch", names |-> <<match_nodes[1].name>>,
          fill |-> parse[Len(parse)]]
    ELSE [kind |-> "MultipleMatches", names |-> NodeNames(match_nodes),
          fill |-> _lcp(NodeNames(match_nodes))]

\* The outcome of the walk with the first name as the fill of several matches.
Completion_FillFirst(root, parse) ==
    LET match_nodes == TabWalk(root, parse) IN
    IF match_nodes = <<>>
    THEN [kind |-> "NoMatch", names |-> <<>>, fill |-> <<>>]
    ELSE IF Len(match_nodes) = 1
    THEN [kind |-> "SingleMatch", names |-> <<match_nodes[1].name>>,
          fill |-> match_nodes[1].name]
    ELSE [kind |-> "MultipleMatches", names |-> NodeNames(match_nodes),
          fill |-> match_nodes[1].name]

\* What the Tab key makes of the walk: nothing, one match to fill in, or
\* several matches to list with their common prefix.
Completion(root, parse) ==
    LET match_nodes == TabWalk(root, parse) IN
    IF match_nodes = <<>>
    THEN [kind |-> "NoMatch", names |-> <<>>, fill |-> <<>>]
    ELSE IF Len(match_nodes) = 1
    THEN [kind |-> "SingleMatch", names |-> <<match_nodes[1].name>>,
          fill |-> match_nodes[1].name]
    ELSE [kind |-> "MultipleMatches", names |-> NodeNames(match_nodes),
          fill |-> _lcp(NodeNames(match_nodes))]

-----------------------------------------------------------------------------
(* Construction: Console.__init__ and _parse_yaml. A command file is the   *)
(* ordered "commands" section: a sequence of [name, action].               *)

\* _parse_command: the node and the parser of one command. The parser is an
\* argparse parser with the single option -h/--help and the default "action".
ParseCommand(c) ==
    [node |-> CommandNode(c.name),
     parser |-> [prog |-> c.name, action |-> c.action]]

\* self._parsers after _parse_yaml
ParsersOf(commands) ==
    [i \in 1..Len(commands) |-> ParseCommand(commands[i]).parser]

\* The root node _parse_yaml returns: a blank node with one child per command.
RECURSIVE AddCommands(_, _)
AddCommands(node, commands) ==
    IF commands = <<>>
    THEN node
    ELSE AddCommands(add_child(node, ParseCommand(Head(commands)).node),
                     Tail(commands))

RootOf(commands) == AddCommands(CommandNode(<<>>), commands)

\* The command file of the key-level console.
KeyCommands ==
    << [name |-> <<"a", "a">>, action |-> "do_aa"],
       [name |-> <<"a", "q">>, action |-> "do_aq"],
       [name |-> <<"q", "a">>, action |-> "do_qa"] >>

\* The command file of the line-level console.
RunCommands ==
    << [name |-> <<"a">>, action |-> "do_a"],
       [name |-> <<"g", "o">>, action |-> "do_go"] >>

\* The locals of _prompt while no call of _prompt is active: no buffer.
Dead == <<"dead">>

NoExc == [type |-> "none", arg |-> <<>>]
Raise(type, arg) == [type |-> type, arg |-> arg]

NoCall == [op |-> "none", arg |-> <<>>, res |-> <<>>, done |-> TRUE]

\* No CommandParser has been made.
NoParser == [name |-> <<>>, positionals |-> <<>>, optionals |-> <<>>, flags |-> <<>>]

\* The state Console.__init__ leaves, for a command file.
Constructed(commands) ==
    /\ pc = "Idle"
    /\ parsers = ParsersOf(commands)
    /\ root_node = RootOf(commands)
    /\ history = <<>>
    /\ cmd = Dead
    /\ cmd_idx = 0
    /\ cmd_cpy = Dead
    /\ hist_idx = -1
    /\ term = [row |-> <<>>, col |-> 0]
    /\ cmd_str = <<>>
    /\ cmd_parse = <<>>
    /\ exc = NoExc
    /\ calls = <<>>

Init == Constructed(KeyCommands) /\ fn = NoCall /\ command_parser = NoParser

-----------------------------------------------------------------------------
(* Console._prompt: one action per key event.                              *)

\* The printable characters the key source delivers in the model.
Chars == {"a", "q", " ", "'"}

\* The head of _prompt keeping the previous buffer as the saved copy.
PromptStart_KeepCopy ==
    /\ cmd' = <<>>
    /\ cmd_idx' = 0
    /\ cmd_cpy' = cmd
    /\ hist_idx' = -1
    /\ term' = Prints([row |-> <<>>, col |-> 0], DEFAULT_PROMPT)

\* The head of _prompt: fresh locals, and the prompt on a new line.
PromptStart ==
    /\ cmd' = <<>>
    /\ cmd_idx' = 0
    /\ cmd_cpy' = <<>>
    /\ hist_idx' = -1
    /\ term' = Prints([row |-> <<>>, col |-> 0], DEFAULT_PROMPT)

\* _prompt is left, by return or by an exception: its locals are gone.
PromptEnd ==
    /\ cmd' = Dead
    /\ cmd_idx' = 0
    /\ cmd_cpy' = Dead
    /\ hist_idx' = -1

\* run() up to its first call of _prompt.
RunStart ==
    /\ pc = "Idle"
    /\ pc' = "Reading"
    /\ PromptStart
    /\ UNCHANGED <<parsers, root_node, history, cmd_str, cmd_parse, exc, calls, fn,
                   command_parser>>

\* get_key() returned None: ignored.
KeyNone ==
    /\ pc = "Reading"
    /\ UNCHANGED vars

\* Key.CTRL_C: _prompt raises KeyboardInterrupt, run prints "^C" and breaks.
KeyCtrlC ==
    /\ pc = "Reading"
    /\ pc' = "Exited"
    /\ exc' = Raise("KeyboardInterrupt", <<>>)
    /\ term' = Prints(term, <<"^", "C", NL>>)
    /\ PromptEnd
    /\ UNCHANGED <<parsers, root_node, history, cmd_str, cmd_parse, calls, fn,
                   command_parser>>

\* Key.BACKSPACE without the space that clears the last character.
KeyBackspace_NoClear ==
    /\ pc = "Reading"
    /\ IF cmd_idx = 0
       THEN UNCHANGED <<cmd, cmd_idx, term>>
       ELSE /\ term' = Prints(term,
                         <<BS>> \o Drop(cmd, cmd_idx)
                         \o Repeat(<<BS>>, Len(cmd) - cmd_idx))
            /\ cmd_idx' = cmd_idx - 1
            /\ cmd' = Take(cmd, cmd_idx') \o Drop(cmd, cmd_idx' + 1)
    /\ UNCHANGED <<pc, parsers, root_node, history, cmd_cpy, hist_idx,
                   cmd_str, cmd_parse, exc, calls, fn,
                   command_parser>>

\* Key.BACKSPACE slicing the buffer before the index is decremented.
KeyBackspace_SliceFirst ==
    /\ pc = "Reading"
    /\ IF cmd_idx = 0
       THEN UNCHANGED <<cmd, cmd_idx, term>>
       ELSE /\ term' = Prints(term,
                         <<BS>> \o Drop(cmd, cmd_idx) \o <<" ">>
                         \o Repeat(<<BS>>, Len(cmd) - cmd_idx) \o <<BS>>)
            /\ cmd' = Take(cmd, cmd_idx) \o Drop(cmd, cmd_idx + 1)
            /\ cmd_idx' = cmd_idx - 1
    /\ UNCHANGED <<pc, parsers, root_node, history, cmd_cpy, hist_idx,
                   cmd_str, cmd_parse, exc, calls, fn,
                   command_parser>>

\* Key.BACKSPACE
KeyBackspace ==
    /\ pc = "Reading"
    /\ IF cmd_idx = 0
       THEN UNCHANGED <<cmd, cmd_idx, term>>
       ELSE /\ term' = Prints(term,
                         <<BS>> \o Drop(cmd, cmd_idx) \o <<" ">>
                         \o Repeat(<<BS>>, Len(cmd) - cmd_idx) \o <<BS>>)
            /\ cmd_idx' = cmd_idx - 1
            /\ cmd' = Take(cmd, cmd_idx') \o Drop(cmd, cmd_idx' + 1)
    /\ UNCHANGED <<pc, parsers, root_node, history, cmd_cpy, hist_idx,
                   cmd_str, cmd_parse, exc, calls, fn,
                   command_parser>>

\* The characters that blank the line and return the cursor to its start.
EraseLine ==
    Repeat(<<" ">>, Len(cmd) - cmd_idx) \o Repeat(<<BS, " ", BS>>, Len(cmd))

\* Key.UP copying the buffer on every press.
KeyUp_AlwaysCopy ==
    /\ pc = "Reading"
    /\ IF hist_idx + 1 >= Len(history)
       THEN UNCHANGED <<cmd, cmd_idx, cmd_cpy, hist_idx, term>>
       ELSE /\ hist_idx' = hist_idx + 1
            /\ cmd_cpy' = cmd
            /\ cmd' = history[hist_idx' + 1]
            /\ cmd_idx' = Len(cmd')
            /\ term' = Prints(term, EraseLine \o cmd')
    /\ UNCHANGED <<pc, parsers, root_node, history, cmd_str, cmd_parse, exc,
                   calls, fn,
                   command_parser>>

\* Key.UP
KeyUp ==
    /\ pc = "Reading"
    /\ IF hist_idx + 1 >= Len(history)
       THEN UNCHANGED <<cmd, cmd_idx, cmd_cpy, hist_idx, term>>
       ELSE /\ hist_idx' = hist_idx + 1
            /\ cmd_cpy' = IF hist_idx' = 0 THEN cmd ELSE cmd_cpy
            /\ cmd' = history[hist_idx' + 1]
            /\ cmd_idx' = Len(cmd')
            /\ term' = Prints(term, EraseLine \o cmd')
    /\ UNCHANGED <<pc, parsers, root_node, history, cmd_str, cmd_parse, exc,
                   calls, fn,
                   command_parser>>

\* Key.DOWN taking the newest history entry where it should take the copy.
KeyDown_NoRestore ==
    /\ pc = "Reading"
    /\ IF hist_idx = -1
       THEN UNCHANGED <<cmd, cmd_idx, hist_idx, term>>
       ELSE /\ hist_idx' = hist_idx - 1
            /\ cmd' = IF hist_idx' = -1 THEN history[1] ELSE history[hist_idx' + 1]
            /\ cmd_idx' = Len(cmd')
            /\ term' = Prints(term, EraseLine \o cmd')
    /\ UNCHANGED <<pc, parsers, root_node, history, cmd_cpy, cmd_str, cmd_parse,
                   exc, calls, fn,
                   command_parser>>

\* Key.DOWN
KeyDown ==
    /\ pc = "Reading"
    /\ IF hist_idx = -1
       THEN UNCHANGED <<cmd, cmd_idx, hist_idx, term>>
       ELSE /\ hist_idx' = hist_idx - 1
            /\ cmd' = IF hist_idx' = -1 THEN cmd_cpy ELSE history[hist_idx' + 1]
            /\ cmd_idx' = Len(cmd')
            /\ term' = Prints(term, EraseLine \o cmd')
    /\ UNCHANGED <<pc, parsers, root_node, history, cmd_cpy, cmd_str, cmd_parse,
                   exc, calls, fn,
                   command_parser>>

\* Key.RIGHT
KeyRight ==
    /\ pc = "Reading"
    /\ IF cmd_idx >= Len(cmd)
       THEN UNCHANGED <<cmd_idx, term>>
       ELSE /\ term' = Prints(term, <<cmd[cmd_idx + 1]>>)
            /\ cmd_idx' = cmd_idx + 1
    /\ UNCHANGED <<pc, parsers, root_node, history, cmd, cmd_cpy, hist_idx,
                   cmd_str, cmd_parse, exc, calls, fn,
                   command_parser>>

\* Key.LEFT without the lower bounds check.
KeyLeft_NoBoundsCheck ==
    /\ pc = "Reading"
    /\ term' = Prints(term, <<BS>>)
    /\ cmd_idx' = cmd_idx - 1
    /\ UNCHANGED <<pc, parsers, root_node, history, cmd, cmd_cpy, hist_idx,
                   cmd_str, cmd_parse, exc, calls, fn,
                   command_parser>>

\* Key.LEFT
KeyLeft ==
    /\ pc = "Reading"
    /\ IF cmd_idx = 0
       THEN UNCHANGED <<cmd_idx, term>>
       ELSE /\ term' = Prints(term, <<BS>>)
            /\ cmd_idx' = cmd_idx - 1
    /\ UNCHANGED <<pc, parsers, root_node, history, cmd, cmd_cpy, hist_idx,
                   cmd_str, cmd_parse, exc, calls, fn,
                   command_parser>>

\* A printable character, inserted whatever the length of the buffer.
KeyChar_NoLimit(inp) ==
    /\ pc = "Reading"
    /\ cmd' = Take(cmd, cmd_idx) \o <<inp>> \o Drop(cmd, cmd_idx)
    /\ cmd_idx' = cmd_idx + 1
    /\ term' = Prints(term,
                 <<inp>> \o Drop(cmd', cmd_idx')
                 \o Repeat(<<BS>>, Len(cmd') - cmd_idx'))
    /\ UNCHANGED <<pc, parsers, root_node, history, cmd_cpy, hist_idx,
                   cmd_str, cmd_parse, exc, calls, fn,
                   command_parser>>

\* A printable character.
KeyChar(inp) ==
    /\ pc = "Reading"
    /\ IF Len(cmd) >= MAX_CMD_LEN
       THEN UNCHANGED <<cmd, cmd_idx, term>>
       ELSE /\ cmd' = Take(cmd, cmd_idx) \o <<inp>> \o Drop(cmd, cmd_idx)
            /\ cmd_idx' = cmd_idx + 1
            /\ term' = Prints(term,
                         <<inp>> \o Drop(cmd', cmd_idx')
                         \o Repeat(<<BS>>, Len(cmd') - cmd_idx'))
    /\ UNCHANGED <<pc, parsers, root_node, history, cmd_cpy, hist_idx,
                   cmd_str, cmd_parse, exc, calls, fn,
                   command_parser>>

\* parse, as the Tab key takes it from the tokens of the buffer.
TabParse(toks) ==
    IF Len(cmd) > 0 /\ cmd[Len(cmd)] = " " /\ cmd_idx = Len(cmd)
    THEN Append(toks, <<>>)
    ELSE toks

\* Key.TAB. shlex.split may raise ValueError, which nothing catches.
KeyTab ==
    /\ pc = "Reading"
    /\ LET sp == ShlexSplit(cmd) IN
       IF ~ sp.ok
       THEN /\ pc' = "Raised"
            /\ exc' = Raise("ValueError", <<>>)
            /\ PromptEnd
            /\ term' = Put(term, NL)
       ELSE LET parse == TabParse(sp.toks) IN
            /\ UNCHANGED <<pc, exc, cmd_cpy, hist_idx>>
            /\ IF parse = <<>>
               THEN UNCHANGED <<cmd, cmd_idx, term>>
               ELSE LET r == Completion(root_node, parse)
                        filled == [parse EXCEPT ![Len(parse)] = r.fill]
                    IN
                    IF r.kind = "NoMatch"
                    THEN UNCHANGED <<cmd, cmd_idx, term>>
                    ELSE IF r.kind = "SingleMatch"
                    THEN /\ cmd' = ShlexJoin(filled) \o <<" ">>
                         /\ cmd_idx' = Len(cmd')
                         /\ term' = Prints(term, Repeat(<<BS>>, cmd_idx) \o cmd')
                    ELSE /\ cmd' = IF Len(r.fill) > 0 THEN ShlexJoin(filled) ELSE cmd
                         /\ cmd_idx' = Len(cmd')
                         /\ term' = Prints(term,
                                      <<NL>>
                                      \o Flatten([i \in 1..Len(r.names) |->
                                                     Append(r.names[i], TAB)])
                                      \o <<NL>> \o DEFAULT_PROMPT \o cmd')
    /\ UNCHANGED <<parsers, root_node, history, cmd_str, cmd_parse, calls, fn,
                   command_parser>>

-----------------------------------------------------------------------------
(* Console.run and Console._dispatch.                                      *)

ExitWords == { <<"E", "X", "I", "T">>, <<"Q", "U", "I", "T">>, <<"Q">> }

\* cmd_parse[0].upper() in ["EXIT", "QUIT", "Q"]
IsExit(toks) == Upper(toks[1]) \in ExitWords

\* The push without the drop of the oldest entry.
HistPush_NoDrop(h, line) ==
    IF Len(h) = 0 \/ h[1] # line THEN <<line>> \o h ELSE h

\* The history after run's push of a non-empty line.
HistPush(h, line) ==
    IF Len(h) = 0 \/ h[1] # line
    THEN LET ins == <<line>> \o h IN
         IF Len(ins) > MAX_HIST_LEN THEN SubSeq(ins, 1, Len(ins) - 1) ELSE ins
    ELSE h

\* run, pushing the line to the history before the check for an empty line.
Commit_PushBlank(line) ==
    LET s == Strip(line) IN
    /\ cmd_str' = s
    /\ history' = (IF Len(history) = 0 \/ history[1] # s
                   THEN <<s>> \o history ELSE history)
    /\ IF Len(s) = 0
       THEN /\ pc' = "Reading"
            /\ UNCHANGED <<cmd_parse, exc>>
       ELSE LET sp == ShlexSplit(s) IN
            IF ~ sp.ok
            THEN /\ pc' = "Reading"
                 /\ UNCHANGED <<cmd_parse, exc>>
            ELSE /\ cmd_parse' = sp.toks
                 /\ pc' = IF IsExit(sp.toks) THEN "Exited" ELSE "Dispatching"
                 /\ UNCHANGED exc
    /\ IF pc' = "Reading"
       THEN PromptStart
       ELSE /\ term' = Put(term, NL)
            /\ PromptEnd
    /\ UNCHANGED <<parsers, root_node, calls, fn,
                   command_parser>>

\* run, pushing the line to the history only once it is split.
Commit_PushAfterSplit(line) ==
    LET s == Strip(line) IN
    /\ cmd_str' = s
    /\ IF Len(s) = 0
       THEN /\ pc' = "Reading"
            /\ UNCHANGED <<history, cmd_parse, exc>>
       ELSE LET sp == ShlexSplit(s) IN
            IF ~ sp.ok
            THEN /\ pc' = "Reading"
                 /\ UNCHANGED <<history, cmd_parse, exc>>
            ELSE /\ history' = HistPush(history, s)
                 /\ cmd_parse' = sp.toks
                 /\ pc' = IF IsExit(sp.toks) THEN "Exited" ELSE "Dispatching"
                 /\ UNCHANGED exc
    /\ IF pc' = "Reading"
       THEN PromptStart
       ELSE /\ term' = Put(term, NL)
            /\ PromptEnd
    /\ UNCHANGED <<parsers, root_node, calls, fn,
                   command_parser>>

\* run, from the return of _prompt with a line to the call of _dispatch, the
\* break or the continue. A continue enters _prompt again.
Commit(line) ==
    LET s == Strip(line) IN
    /\ cmd_str' = s
    /\ IF Len(s) = 0
       THEN /\ pc' = "Reading"
            /\ UNCHANGED <<history, cmd_parse, exc>>
       ELSE /\ history' = HistPush(history, s)
            /\ LET sp == ShlexSplit(s) IN
               IF ~ sp.ok
               THEN /\ pc' = "Reading"
                    /\ UNCHANGED <<cmd_parse, exc>>
               ELSE /\ cmd_parse' = sp.toks
                    /\ pc' = IF IsExit(sp.toks) THEN "Exited" ELSE "Dispatching"
                    /\ UNCHANGED exc
    /\ IF pc' = "Reading"
       THEN PromptStart
       ELSE /\ term' = Put(term, NL)
            /\ PromptEnd
    /\ UNCHANGED <<parsers, root_node, calls, fn,
                   command_parser>>

\* Whether committing the line keeps the history within the model's bound.
WithinHist(line, bound) ==
    IF Len(Strip(line)) = 0 \/ Len(history) < bound
    THEN TRUE
    ELSE history[1] = Strip(line)

\* Key.RETURN: _prompt returns the buffer and run handles it.
KeyReturn ==
    /\ pc = "Reading"
    /\ WithinHist(cmd, MaxHist)
    /\ Commit(cmd)

\* cmd_parser.parse_args(args) of a parser whose only option is -h/--help:
\* whether it returns (it raises SystemExit otherwise).
ParseArgsOk(args) == args = <<>>

\* The Namespace parse_args returns when it succeeds: the parser's defaults,
\* which set_defaults made the bound action.
ParsedArgs(p) == [action |-> parsers[p].action]

\* The lookup of _dispatch comparing the names without regard to case.
FindParser_IgnoreCase(name) ==
    LET found == {i \in 1..Len(parsers) : Upper(parsers[i].prog) = Upper(name)} IN
    IF found = {} THEN 0 ELSE CHOOSE i \in found : \A j \in found : j <= i

\* The parser _dispatch's loop leaves in cmd_parser: the last one whose prog
\* is the name, or 0 for None.
FindParser(name) ==
    LET found == {i \in 1..Len(parsers) : parsers[i].prog = name} IN
    IF found = {} THEN 0 ELSE CHOOSE i \in found : \A j \in found : j <= i

\* What a bound action does when called: it returns, raises an exception, or
\* raises a DispatchError.
ActionOutcomes == {"return", "raise", "raise DispatchError"}

\* self._dispatch(cmd_parse): it returns, raises a DispatchError, which run
\* handles, or raises something else, which run does not catch.
Dispatch(outcome) ==
    /\ pc = "Dispatching"
    /\ LET p == FindParser(cmd_parse[1]) IN
       IF p = 0
       THEN /\ exc' = Raise("DispatchNotFoundError", cmd_parse[1])
            /\ calls' = <<>>
            /\ pc' = "Handling"
       ELSE LET parsed == [op |-> "parse_args", name |-> parsers[p].prog,
                           args |-> Tail(cmd_parse)]
                \* args.action(): the action of the Namespace, called with
                \* no argument
                called == [op |-> "action", name |-> ParsedArgs(p).action,
                           args |-> <<>>]
            IN
            IF ~ ParseArgsOk(Tail(cmd_parse))
            THEN \* the SystemExit handler reads cmd_parser.error_msg, which
                 \* an argparse parser does not have: AttributeError
                 /\ exc' = Raise("AttributeError", <<>>)
                 /\ calls' = <<parsed>>
                 /\ pc' = "Raised"
            ELSE /\ calls' = <<parsed, called>>
                 /\ IF outcome = "return"
                    THEN pc' = "Returned" /\ UNCHANGED exc
                    ELSE IF outcome = "raise DispatchError"
                    THEN pc' = "Handling" /\ exc' = Raise("DispatchError", <<>>)
                    ELSE pc' = "Raised" /\ exc' = Raise("Exception", <<>>)
    /\ UNCHANGED <<parsers, root_node, history, cmd, cmd_idx, cmd_cpy, hist_idx,
                   term, cmd_str, cmd_parse, fn,
                   command_parser>>

\* The end of the iteration: run's handler prints a DispatchError, and the
\* loop calls _prompt again.
LoopBack ==
    /\ pc \in {"Returned", "Handling"}
    /\ pc' = "Reading"
    /\ exc' = NoExc
    /\ calls' = <<>>
    /\ PromptStart
    /\ UNCHANGED <<parsers, root_node, history, cmd_str, cmd_parse, fn,
                   command_parser>>

Next ==
    \/ RunStart
    \/ KeyNone
    \/ KeyCtrlC
    \/ KeyReturn
    \/ KeyBackspace
    \/ KeyTab
    \/ KeyUp
    \/ KeyDown
    \/ KeyRight
    \/ KeyLeft
    \/ \E inp \in Chars : Len(cmd) < MaxLen /\ KeyChar(inp)
    \/ \E outcome \in ActionOutcomes : Dispatch(outcome)
    \/ LoopBack

Spec == Init /\ [][Next]_vars

-----------------------------------------------------------------------------
(* The command loop line by line: a call of _prompt is one step, which     *)
(* returns a line (any string of printable characters) or is cancelled.    *)

\* The model commits lines that lengthen the history while it is shorter.
MaxRunHist == 2

InitRun == Constructed(RunCommands) /\ fn = NoCall /\ command_parser = NoParser

\* _prompt returns the line.
PromptLine(line) ==
    /\ pc = "Reading"
    /\ Commit(line)

RunLines ==
    { <<>>, <<" ">>,
      <<"a">>, <<" ", "a", " ">>, <<"g", "o">>,
      <<"a", " ", "x">>, <<"g", "o", " ", "-", "h">>,
      <<"z">>, <<"'", "'">>, <<"A">>,
      <<"'">>, <<"a", " ", "'">>,
      <<"e", "x", "i", "t">>, <<"Q", "u", "I", "t">>, <<"q">>, <<"Q">>,
      <<"q", " ", "a">>, <<"'", "q", "'">>,
      <<"q", "a">>, <<"e", "x", "i", "t", "s">> }

NextRun ==
    \/ RunStart
    \/ KeyCtrlC
    \/ \E line \in RunLines : WithinHist(line, MaxRunHist) /\ PromptLine(line)
    \/ \E outcome \in ActionOutcomes : Dispatch(outcome)
    \/ LoopBack

SpecRun == InitRun /\ [][NextRun]_vars

\* The same loop over few lines and with no bound on the commits: the
\* history fills up.
HistLines == { <<>>, <<" ">>, <<"a">>, <<" ", "a">>, <<"z">> }

NextHist ==
    \/ RunStart
    \/ KeyCtrlC
    \/ \E line \in HistLines : PromptLine(line)
    \/ \E outcome \in ActionOutcomes : Dispatch(outcome)
    \/ LoopBack

SpecHist == InitRun /\ [][NextHist]_vars

-----------------------------------------------------------------------------
(* A prompt session with a buffer near MAX_CMD_LEN: MAX_CMD_LEN - MaxBack  *)
(* characters have been typed, and the keys act on the end of the buffer.  *)

\* How far from MAX_CMD_LEN the long buffer starts, and how far from it the
\* cursor and Backspace go.
MaxBack == 3

LongChars == {"a", "q"}

InitLong ==
    /\ pc = "Reading"
    /\ parsers = ParsersOf(KeyCommands)
    /\ root_node = RootOf(KeyCommands)
    /\ history = <<>>
    /\ cmd = [i \in 1..(MAX_CMD_LEN - MaxBack) |-> "a"]
    /\ cmd_idx = Len(cmd)
    /\ cmd_cpy = <<>>
    /\ hist_idx = -1
    /\ term = [row |-> DEFAULT_PROMPT \o cmd, col |-> Len(DEFAULT_PROMPT) + cmd_idx]
    /\ cmd_str = <<>>
    /\ cmd_parse = <<>>
    /\ exc = NoExc
    /\ calls = <<>>
    /\ fn = NoCall
    /\ command_parser = NoParser

NextLong ==
    \/ \E inp \in LongChars : KeyChar(inp)
    \/ Len(cmd) > MAX_CMD_LEN - MaxBack /\ KeyBackspace
    \/ cmd_idx > MAX_CMD_LEN - MaxBack /\ KeyLeft
    \/ KeyRight

SpecLong == InitLong /\ [][NextLong]_vars

-----------------------------------------------------------------------------
(* Calls of the helpers on their own: _lcp on a list of strings, and the   *)
(* completion walk on a command tree and a list of tokens.                 *)

\* The longest string handed to a helper.
MaxStr == 2

FunChars == {"a", "b"}

\* The strings over FunChars of length n, and of length at most n.
StrsOfLen(n) == [1..n -> FunChars]
Strs(n) == UNION {StrsOfLen(k) : k \in 0..n}

\* The sequences over S of length at most n.
SeqsUpTo(S, n) == UNION {[1..k -> S] : k \in 0..n}

LcpExamples ==
    { << <<"a", "b", "c">> >>,
      << <<"a", "b", "c">>, <<"a", "b", "d">>, <<"a", "b">> >>,
      << <<"a", "b">>, <<"a", "b", "c">>, <<"a", "b", "d">> >>,
      << <<"a">>, <<"b">> >>,
      << <<"a", "b", "a">>, <<"a", "b", "b">>, <<"a", "a", "b">> >> }

LcpInputs == SeqsUpTo(Strs(MaxStr), MaxArgs) \cup LcpExamples

\* Command trees: a root with up to two commands, each with at most one
\* subcommand, and the tree of the commands help and hello.
TreeNames == { <<"a">>, <<"a", "b">>, <<"b">> }
Leaves == {CommandNode(n) : n \in TreeNames}
Commands == Leaves \cup {add_child(CommandNode(n), c) : n \in TreeNames, c \in Leaves}
HelpTree ==
    add_child(add_child(CommandNode(<<>>), CommandNode(<<"h", "e", "l", "p">>)),
              CommandNode(<<"h", "e", "l", "l", "o">>))
Trees == {[name |-> <<>>, children |-> cs] : cs \in SeqsUpTo(Commands, 2)}

CompleteInputs ==
    {[root |-> t, parse |-> tokens] :
        t \in Trees, tokens \in SeqsUpTo(Strs(MaxStr), MaxArgs) \ {<<>>}}
    \cup {[root |-> HelpTree, parse |-> tokens] :
            tokens \in { << <<"h", "e">> >>, << <<"h", "e", "l", "p">> >>,
                         << <<"z", "z">> >>, << <<>> >>,
                         << <<"h", "e", "l", "l">>, <<>> >> }}

\* The trees and names find is called with: the trees above, where a name
\* can be both a command and the subcommand of another command.
FindInputs ==
    {[root |-> t, name |-> n] : t \in Trees, n \in TreeNames \cup {<<>>, <<"z">>}}

InitFun ==
    /\ Constructed(KeyCommands)
    /\ command_parser = NoParser
    /\ \/ \E l \in LcpInputs :
            fn = [op |-> "_lcp", arg |-> l, res |-> <<>>, done |-> FALSE]
       \/ \E a \in CompleteInputs :
            fn = [op |-> "complete", arg |-> a, res |-> <<>>, done |-> FALSE]
       \/ \E a \in FindInputs :
            fn = [op |-> "find", arg |-> a, res |-> <<>>, done |-> FALSE]

\* _lcp(l)
CallLcp ==
    /\ fn.op = "_lcp" /\ ~ fn.done
    /\ fn' = [fn EXCEPT !.res = _lcp(fn.arg), !.done = TRUE]
    /\ UNCHANGED <<pc, parsers, root_node, history, cmd, cmd_idx, cmd_cpy,
                   hist_idx, term, cmd_str, cmd_parse, exc, calls,
                   command_parser>>

\* The completion walk of the Tab key over a tree and the tokens.
CallComplete ==
    /\ fn.op = "complete" /\ ~ fn.done
    /\ fn' = [fn EXCEPT !.res = Completion(fn.arg.root, fn.arg.parse),
                        !.done = TRUE]
    /\ UNCHANGED <<pc, parsers, root_node, history, cmd, cmd_idx, cmd_cpy,
                   hist_idx, term, cmd_str, cmd_parse, exc, calls,
                   command_parser>>

\* root.find(name)
CallFind ==
    /\ fn.op = "find" /\ ~ fn.done
    /\ fn' = [fn EXCEPT !.res = find(fn.arg.root, fn.arg.name), !.done = TRUE]
    /\ UNCHANGED <<pc, parsers, root_node, history, cmd, cmd_idx, cmd_cpy,
                   hist_idx, term, cmd_str, cmd_parse, exc, calls,
                   command_parser>>

NextFun == CallLcp \/ CallComplete \/ CallFind

SpecFun == InitFun /\ [][NextFun]_vars

-----------------------------------------------------------------------------
(* A prompt session browsing the history: lines have been committed, a     *)
(* buffer has been typed, and from then on the keys are Up, Down, Left and *)
(* Right, none of which edits. fn keeps the buffer that was typed.         *)

\* The most lines in the history of the browsing session.
MaxNavHist == 3

NavLines == { <<"a">>, <<"a", "q">>, <<"q", " ", "a">> }

\* The histories run can have built from the lines: no line twice in a row.
NavHistories ==
    {h \in SeqsUpTo(NavLines, MaxNavHist) : \A i \in 1..(Len(h) - 1) : h[i] # h[i + 1]}

InitNav ==
    /\ pc = "Reading"
    /\ parsers = ParsersOf(KeyCommands)
    /\ root_node = RootOf(KeyCommands)
    /\ history \in NavHistories
    /\ cmd \in SeqsUpTo(Chars, MaxLen)
    /\ cmd_idx \in 0..Len(cmd)
    /\ cmd_cpy = <<>>
    /\ hist_idx = -1
    /\ term = [row |-> TrimBlank(DEFAULT_PROMPT \o cmd),
               col |-> Len(DEFAULT_PROMPT) + cmd_idx]
    /\ cmd_str = <<>>
    /\ cmd_parse = <<>>
    /\ exc = NoExc
    /\ calls = <<>>
    /\ fn = [op |-> "session", arg |-> cmd, res |-> <<>>, done |-> TRUE]
    /\ command_parser = NoParser

NextNav == KeyUp \/ KeyDown \/ KeyLeft \/ KeyRight

SpecNav == InitNav /\ [][NextNav]_vars

-----------------------------------------------------------------------------
(* A prompt session in which Tab is pressed: a buffer has been typed, the  *)
(* cursor is anywhere in it, and from then on the key is Tab. fn keeps the *)
(* buffer and the cursor index the first Tab found.                        *)

\* The longest buffer Tab is pressed on.
MaxTabLen == 3

\* The command file of the session: a command that is a prefix of no other,
\* and two commands with a common prefix.
TabCommands ==
    << [name |-> <<"a">>, action |-> "do_a"],
       [name |-> <<"q", "a">>, action |-> "do_qa"],
       [name |-> <<"q", "q">>, action |-> "do_qq"] >>

InitTab ==
    /\ pc = "Reading"
    /\ parsers = ParsersOf(TabCommands)
    /\ root_node = RootOf(TabCommands)
    /\ history = <<>>
    /\ cmd \in SeqsUpTo(Chars, MaxTabLen)
    /\ cmd_idx \in 0..Len(cmd)
    /\ cmd_cpy = <<>>
    /\ hist_idx = -1
    /\ term = [row |-> TrimBlank(DEFAULT_PROMPT \o cmd),
               col |-> Len(DEFAULT_PROMPT) + cmd_idx]
    /\ cmd_str = <<>>
    /\ cmd_parse = <<>>
    /\ exc = NoExc
    /\ calls = <<>>
    /\ fn = [op |-> "tab", arg |-> [cmd |-> cmd, cmd_idx |-> cmd_idx],
             res |-> <<>>, done |-> TRUE]
    /\ command_parser = NoParser

NextTab == KeyTab

SpecTab == InitTab /\ [][NextTab]_vars

-----------------------------------------------------------------------------
(* A prompt session of a console one of whose commands has a name of       *)
(* MAX_CMD_LEN characters: keys on short buffers and on the buffers Tab    *)
(* fills in.                                                               *)

\* The longest buffer typed by character keys in this session.
MaxFill == 2

\* A command file with a name as long as the buffer's limit.
FillCommands ==
    << [name |-> [i \in 1..MAX_CMD_LEN |-> "a"], action |-> "do_long"],
       [name |-> <<"q", "a">>, action |-> "do_qa"],
       [name |-> <<"q", "q">>, action |-> "do_qq"] >>

InitFill ==
    /\ pc = "Reading"
    /\ parsers = ParsersOf(FillCommands)
    /\ root_node = RootOf(FillCommands)
    /\ history = << <<"q", "a">> >>
    /\ cmd = <<>>
    /\ cmd_idx = 0
    /\ cmd_cpy = <<>>
    /\ hist_idx = -1
    /\ term = [row |-> DEFAULT_PROMPT, col |-> Len(DEFAULT_PROMPT)]
    /\ cmd_str = <<"q", "a">>
    /\ cmd_parse = << <<"q", "a">> >>
    /\ exc = NoExc
    /\ calls = <<>>
    /\ fn = NoCall
    /\ command_parser = NoParser

NextFill ==
    \/ \E inp \in LongChars : Len(cmd) < MaxFill /\ KeyChar(inp)
    \/ Len(cmd) <= MaxFill /\ KeyTab
    \/ Len(cmd) <= MaxFill /\ KeyBackspace
    \/ cmd_idx <= MaxFill /\ KeyLeft
    \/ KeyRight
    \/ KeyUp
    \/ KeyDown

SpecFill == InitFill /\ [][NextFill]_vars

-----------------------------------------------------------------------------
(* parser.py: a CommandParser and its schema-building calls. An Argument   *)
(* is kept as [arg_type, name, metaname]; its type and help are stored and *)
(* never read by these calls.                                              *)

\* Python's None, which is no string.
None == <<"None">>

ArgNames == { <<"a">>, <<"b">> }
Metanames == { None, <<"x">>, <<"y">> }

\* Argument(arg_type, name, type, help, metaname=None)
Argument(arg_type, name, metaname) ==
    [arg_type |-> arg_type, name |-> name, metaname |-> metaname]

\* CommandParser(name)
CommandParser(name) ==
    [name |-> name, positionals |-> <<>>, optionals |-> <<>>, flags |-> <<>>]

InitParser ==
    /\ Constructed(KeyCommands)
    /\ fn = NoCall
    /\ command_parser = CommandParser(<<"c">>)

\* What the calls leave alone.
ConsoleUnchanged ==
    UNCHANGED <<pc, parsers, root_node, history, cmd, cmd_idx, cmd_cpy, hist_idx,
                term, cmd_str, cmd_parse, calls, fn>>

\* command_parser.add_positional(name, type, help)
add_positional(name) ==
    /\ command_parser # NoParser
    /\ IF \E i \in 1..Len(command_parser.positionals) :
             command_parser.positionals[i].name = name
       THEN /\ exc' = Raise("DuplicateArgumentError", <<name, command_parser.name>>)
            /\ UNCHANGED command_parser
       ELSE /\ command_parser' =
                 [command_parser EXCEPT
                     !.positionals = Append(@, Argument("POSITIONAL", name, None))]
            /\ exc' = NoExc
    /\ ConsoleUnchanged

\* command_parser.add_optional(name, type, help)
add_optional(name) ==
    /\ command_parser # NoParser
    /\ IF \E i \in 1..Len(command_parser.optionals) :
             command_parser.optionals[i].name = name
       THEN /\ exc' = Raise("DuplicateArgumentError", <<name, command_parser.name>>)
            /\ UNCHANGED command_parser
       ELSE /\ command_parser' =
                 [command_parser EXCEPT
                     !.optionals = Append(@, Argument("OPTIONAL", name, None))]
            /\ exc' = NoExc
    /\ ConsoleUnchanged

\* command_parser.add_flag(name, metaname, help): the Argument is made
\* without the metaname, which stays None.
add_flag(name, metaname) ==
    /\ command_parser # NoParser
    /\ IF \E i \in 1..Len(command_parser.flags) :
             \/ command_parser.flags[i].name = name
             \/ command_parser.flags[i].metaname = metaname
       THEN /\ exc' = Raise("DuplicateArgumentError", <<name, command_parser.name>>)
            /\ UNCHANGED command_parser
       ELSE /\ command_parser' =
                 [command_parser EXCEPT
                     !.flags = Append(@, Argument("FLAG", name, None))]
            /\ exc' = NoExc
    /\ ConsoleUnchanged

NextParser ==
    \/ \E name \in ArgNames : add_positional(name)
    \/ \E name \in ArgNames : add_optional(name)
    \/ \E name \in ArgNames, metaname \in Metanames : add_flag(name, metaname)

SpecParser == InitParser /\ [][NextParser]_vars

\* A CommandParser after its first add_flag(name, metaname, help), with the
\* arguments of that call on record.
InitFlags ==
    /\ Constructed(KeyCommands)
    /\ \E name \in ArgNames, metaname \in Metanames :
          /\ command_parser =
                [CommandParser(<<"c">>) EXCEPT
                    !.flags = Append(@, Argument("FLAG", name, None))]
          /\ fn = [op |-> "add_flag", arg |-> [name |-> name, metaname |-> metaname],
                   res |-> <<>>, done |-> TRUE]

SpecFlags == InitFlags /\ [][NextParser]_vars

-----------------------------------------------------------------------------
(* Properties of the line editor.                                          *)

\* C1: in a prompt session the cursor index stays within the buffer,
\* 0 <= cmd_idx <= len(cmd), after every key event.
C1_CursorInBounds ==
    pc = "Reading" => (0 <= cmd_idx /\ cmd_idx <= Len(cmd))

\* A session browsing the history with the cursor strictly inside the buffer.
C1_Witness ==
    pc = "Reading" /\ hist_idx = 0 /\ 0 < cmd_idx /\ cmd_idx < Len(cmd)

\* The terminal shows the prompt and the buffer, nothing beyond it, and its
\* cursor is at the column of cmd_idx.
Consistent ==
    /\ term.row = TrimBlank(DEFAULT_PROMPT \o cmd)
    /\ term.col = Len(DEFAULT_PROMPT) + cmd_idx

\* A character, Backspace, Left, Right, Up or Down key event.
EditKey ==
    \/ KeyBackspace
    \/ KeyUp
    \/ KeyDown
    \/ KeyRight
    \/ KeyLeft
    \/ \E inp \in Chars : KeyChar(inp)

\* C2: a session starts with the terminal showing the empty buffer, and a
\* character, Backspace, Left, Right, Up or Down key event on a terminal
\* that shows the buffer with the cursor at cmd_idx leaves it showing the new
\* buffer, with no leftover characters, with the cursor at the new cmd_idx.
C2_TerminalFollowsBuffer ==
    [][ /\ (pc # "Reading" /\ pc' = "Reading") => Consistent'
        /\ (Consistent /\ EditKey) => Consistent' ]_vars

\* The terminal shows a recalled history entry after the cursor moved left
\* and a character was deleted from inside it.
C2_Witness ==
    /\ pc = "Reading"
    /\ Consistent
    /\ hist_idx = 0
    /\ history # <<>>
    /\ Len(cmd) + 1 = Len(history[1])
    /\ cmd_idx = 0
    /\ Len(cmd) = 1

-----------------------------------------------------------------------------
(* Properties of the command loop.                                         *)

\* C3: the history never holds more than MAX_HIST_LEN entries; committing a
\* line that equals, after trimming, the front entry leaves the history as
\* it is; and a push onto a full history drops the oldest (last) entry.
C3_HistoryBounded ==
    /\ [](Len(history) <= MAX_HIST_LEN)
    /\ [][\A line \in HistLines :
            (PromptLine(line) /\ Len(Strip(line)) > 0) =>
                IF history # <<>> /\ history[1] = Strip(line)
                THEN history' = history
                ELSE IF Len(history) = MAX_HIST_LEN
                THEN history' = <<Strip(line)>>
                                \o SubSeq(history, 1, MAX_HIST_LEN - 1)
                ELSE history' = <<Strip(line)>> \o history]_vars

\* A full history whose front entry is the line committed last.
C3_Witness ==
    /\ Len(history) = MAX_HIST_LEN
    /\ history[1] = cmd_str
    /\ pc = "Reading"

\* C4: the console loop ends only when the prompt is cancelled (Ctrl-C) or
\* when the first token of a committed line is, whatever its case, one of
\* the exit keywords EXIT, QUIT, Q.
C4_LoopEndsOnlyByExitOrCancel ==
    pc \in {"Exited", "Raised"} =>
        \/ exc.type = "KeyboardInterrupt"
        \/ exc = NoExc /\ pc = "Exited" /\ cmd_parse # <<>> /\ IsExit(cmd_parse)

\* C5: a committed line that is empty after trimming leaves the history
\* unchanged, invokes no parser and no action, and returns to prompting.
C5_BlankLineIgnored ==
    [][\A line \in RunLines :
        (PromptLine(line) /\ Len(Strip(line)) = 0) =>
            /\ history' = history
            /\ calls' = <<>>
            /\ exc' = NoExc
            /\ pc' = "Reading"]_vars

\* A blank line was committed after a line that is in the history.
C5_Witness ==
    /\ pc = "Reading"
    /\ cmd_str = <<>>
    /\ history # <<>>
    /\ calls = <<>>

\* C6: a committed line that is not empty after trimming is the front entry
\* of the history as soon as it is committed, whatever becomes of it, and so
\* before its dispatch begins.
C6_PushedBeforeDispatch ==
    /\ [](pc = "Dispatching" =>
            history # <<>> /\ history[1] = cmd_str /\ calls = <<>>)
    /\ [][\A line \in RunLines :
            (PromptLine(line) /\ Len(Strip(line)) > 0) =>
                (history' # <<>> /\ history'[1] = Strip(line))]_vars

\* A second line is committed and about to be dispatched.
C6_Witness ==
    /\ pc = "Dispatching"
    /\ Len(history) = 2
    /\ history[1] = cmd_str
    /\ cmd_parse = <<cmd_str>>

\* Whether a command of that exact name is registered.
Registered(name) == \E i \in 1..Len(parsers) : parsers[i].prog = name

\* C9: dispatching tokens whose first token is no registered command name
\* raises DispatchNotFoundError with that name, invokes no parser and no
\* action, leaves the parsers and the command tree as they are, and the loop,
\* having handled the error, prompts again.
C9_UnknownCommand ==
    [][ /\ (pc = "Dispatching" /\ ~ Registered(cmd_parse[1])) =>
              /\ pc' = "Handling"
              /\ exc' = Raise("DispatchNotFoundError", cmd_parse[1])
              /\ calls' = <<>>
              /\ parsers' = parsers
              /\ root_node' = root_node
        /\ (pc = "Handling" /\ exc.type = "DispatchNotFoundError") =>
              /\ pc' = "Reading"
              /\ parsers' = parsers
              /\ root_node' = root_node ]_vars

\* The loop handles the error of an unknown command.
C9_Witness ==
    /\ pc = "Handling"
    /\ exc = Raise("DispatchNotFoundError", <<"A">>)
    /\ calls = <<>>

\* C10: a failure raised inside the bound action is caught: the loop does
\* not end, and goes on to prompt.
C10_ActionFailureCaught ==
    (calls # <<>> /\ calls[Len(calls)].op = "action" /\ exc # NoExc) =>
        pc = "Handling"

\* C11: when the first token names a registered command and its parser
\* rejects the remaining tokens, dispatch reports the error, calls no action
\* and raises nothing: it returns, and the loop goes on to prompt.
C11_ParseFailureReported ==
    \A i \in 1..Len(calls) :
        (calls[i].op = "parse_args" /\ ~ ParseArgsOk(calls[i].args)) =>
            /\ Len(calls) = 1
            /\ exc = NoExc
            /\ pc = "Returned"

\* C12: when the first token names a registered command and the remaining
\* tokens parse, dispatch calls the bound action of that command exactly
\* once and passes it the Namespace the parse produced.
C12_ActionGetsNamespace ==
    ( /\ pc \in {"Returned", "Handling", "Raised"}
      /\ cmd_parse # <<>>
      /\ FindParser(cmd_parse[1]) # 0
      /\ ParseArgsOk(Tail(cmd_parse)) ) =>
        LET p == FindParser(cmd_parse[1])
            acts == SelectSeq(calls, LAMBDA c : c.op = "action")
        IN  /\ Len(acts) = 1
            /\ acts[1].name = parsers[p].action
            /\ acts[1].args = <<ParsedArgs(p)>>

\* C16: on Backspace, a cursor at 0 leaves the buffer and the cursor
\* unchanged; otherwise exactly the character at cmd_idx - 1 is removed, the
\* other characters keep their order, and cmd_idx decreases by exactly one.
C16_BackspaceRemovesBeforeCursor ==
    [][KeyBackspace =>
        IF cmd_idx = 0
        THEN UNCHANGED <<cmd, cmd_idx>>
        ELSE /\ Len(cmd') = Len(cmd) - 1
             /\ cmd_idx' = cmd_idx - 1
             /\ \A i \in 1..(cmd_idx - 1) : cmd'[i] = cmd[i]
             /\ \A i \in (cmd_idx + 1)..Len(cmd) : cmd'[i - 1] = cmd[i] ]_vars

\* The line "aq" recalled from the history with its first character
\* removed: the cursor was after the "a".
C16_Witness ==
    /\ pc = "Reading"
    /\ hist_idx = 0
    /\ history # <<>>
    /\ history[1] = <<"a", "q">>
    /\ cmd = <<"q">>
    /\ cmd_idx = 0

\* C17: a prompt session ends only on Return or on the Cancel key. Return
\* yields the buffer as the committed line (which run trims); Cancel yields
\* no line, and run then pushes nothing to the history and dispatches
\* nothing; an unrecognized key changes no state and does not end the
\* session.
C17_SessionEndsOnReturnOrCancel ==
    [][pc = "Reading" =>
        /\ pc' # "Reading" => (KeyReturn \/ KeyCtrlC)
        /\ KeyReturn => cmd_str' = Strip(cmd)
        /\ KeyCtrlC =>
              /\ pc' = "Exited"
              /\ exc'.type = "KeyboardInterrupt"
              /\ UNCHANGED <<history, cmd_str, cmd_parse, calls>>
        /\ KeyNone => UNCHANGED vars ]_vars

\* C18: on Up, when hist_idx + 1 >= len(history) nothing changes (buffer,
\* cursor, hist_idx, saved buffer); otherwise hist_idx grows by one, the
\* buffer becomes history[hist_idx] with the cursor at its end, and the saved
\* buffer becomes the buffer before the key exactly when hist_idx goes from
\* -1 to 0: later Up presses do not overwrite it.
C18_UpRecalls ==
    [][KeyUp =>
        IF hist_idx + 1 >= Len(history)
        THEN UNCHANGED <<cmd, cmd_idx, hist_idx, cmd_cpy>>
        ELSE /\ hist_idx' = hist_idx + 1
             /\ cmd' = history[hist_idx' + 1]
             /\ cmd_idx' = Len(cmd')
             /\ hist_idx = -1 => cmd_cpy' = cmd
             /\ hist_idx # -1 => cmd_cpy' = cmd_cpy ]_vars

\* A second Up: the buffer is the second entry of the history and the saved
\* buffer is still the buffer that was typed, which is neither entry.
C18_Witness ==
    /\ pc = "Reading"
    /\ fn.op = "session"
    /\ hist_idx = 1
    /\ cmd = history[2]
    /\ cmd_cpy = fn.arg
    /\ cmd_cpy # <<>>
    /\ cmd_cpy # history[1]
    /\ cmd_cpy # history[2]

\* C19: on Down, hist_idx = -1 changes nothing; otherwise hist_idx decreases
\* by one and the buffer becomes the saved buffer when hist_idx reaches -1
\* and history[hist_idx] otherwise, with the cursor at its end. So, with no
\* edit in between, as many Down presses as Up presses bring back the buffer
\* that was there before the first Up.
C19_DownRestores ==
    /\ [][KeyDown =>
            IF hist_idx = -1
            THEN UNCHANGED <<cmd, cmd_idx, hist_idx, cmd_cpy>>
            ELSE /\ hist_idx' = hist_idx - 1
                 /\ cmd' = (IF hist_idx' = -1 THEN cmd_cpy ELSE history[hist_idx' + 1])
                 /\ cmd_idx' = Len(cmd')
                 /\ cmd_cpy' = cmd_cpy ]_vars
    /\ [][KeyUp => hist_idx' \in {hist_idx, hist_idx + 1}]_vars
    /\ []((fn.op = "session" /\ hist_idx = -1) => cmd = fn.arg)

\* Back from the history: the buffer that was typed is in place again, with
\* the cursor at its end, after two lines of the history were shown.
C19_Witness ==
    /\ pc = "Reading"
    /\ fn.op = "session"
    /\ Len(history) >= 2
    /\ hist_idx = -1
    /\ cmd_cpy # <<>>
    /\ cmd = cmd_cpy
    /\ cmd = fn.arg
    /\ cmd_idx = Len(cmd)
    /\ cmd # history[1]

\* C15: on a printable character, a buffer of MAX_CMD_LEN characters or
\* more leaves the buffer, the cursor and the history index unchanged;
\* otherwise the character is inserted at cmd_idx, the characters before and
\* after keep their order, and the length and cmd_idx grow by exactly one.
C15_CharacterInserted ==
    [][\A inp \in LongChars :
        KeyChar(inp) =>
            IF Len(cmd) >= MAX_CMD_LEN
            THEN UNCHANGED <<cmd, cmd_idx, hist_idx>>
            ELSE /\ Len(cmd') = Len(cmd) + 1
                 /\ cmd_idx' = cmd_idx + 1
                 /\ cmd'[cmd_idx + 1] = inp
                 /\ \A i \in 1..cmd_idx : cmd'[i] = cmd[i]
                 /\ \A i \in (cmd_idx + 1)..Len(cmd) : cmd'[i + 1] = cmd[i]
                 /\ UNCHANGED hist_idx ]_vars

\* A full buffer whose last character but one was typed in front of the last.
C15_Witness ==
    /\ pc = "Reading"
    /\ Len(cmd) = MAX_CMD_LEN
    /\ cmd[MAX_CMD_LEN - 1] = "q"
    /\ cmd[MAX_CMD_LEN] = "a"
    /\ cmd_idx = MAX_CMD_LEN - 1

-----------------------------------------------------------------------------
(* Properties of the CommandParser.                                        *)

\* The names of a list of arguments.
NamesOf(arguments) == {arguments[i].name : i \in 1..Len(arguments)}

\* A call adding the name to the category: it raises DuplicateArgumentError
\* naming the argument and the command and changes nothing when the name is
\* in the category, and appends one argument of that name to the category,
\* and to no other, when it is not.
AddOutcome(name, category) ==
    IF name \in NamesOf(command_parser[category])
    THEN /\ exc' = Raise("DuplicateArgumentError", <<name, command_parser.name>>)
         /\ command_parser' = command_parser
    ELSE /\ exc' = NoExc
         /\ Len(command_parser'[category]) = Len(command_parser[category]) + 1
         /\ command_parser'[category][Len(command_parser'[category])].name = name
         /\ command_parser' =
              [command_parser EXCEPT ![category] = command_parser'[category]]
         /\ SubSeq(command_parser'[category], 1, Len(command_parser[category]))
              = command_parser[category]

\* C13: in any sequence of add_positional, add_optional and add_flag calls,
\* a call whose name is in its own category raises DuplicateArgumentError
\* and leaves the three lists unchanged, a call whose name is not in its own
\* category appends exactly one argument, and names stay unique within each
\* category.
C13_DuplicateRejected ==
    [][ /\ \A name \in ArgNames :
            /\ add_positional(name) => AddOutcome(name, "positionals")
            /\ add_optional(name) => AddOutcome(name, "optionals")
            /\ \A metaname \in Metanames :
                    add_flag(name, metaname) => AddOutcome(name, "flags")
        /\ \A category \in {"positionals", "optionals", "flags"} :
                Cardinality(NamesOf(command_parser'[category]))
                    = Len(command_parser'[category]) ]_vars

-----------------------------------------------------------------------------
(* Properties of the helpers.                                              *)

\* Whether p is a prefix of every string of the list.
CommonPrefix(p, l) ==
    \A k \in 1..Len(l) : Len(p) <= Len(l[k]) /\ \A i \in 1..Len(p) : l[k][i] = p[i]

\* The longest common prefix of a non-empty list, by its definition.
LongestCommonPrefix(l) ==
    LET n == CHOOSE n \in 0..Len(l[1]) :
                 /\ CommonPrefix(SubSeq(l[1], 1, n), l)
                 /\ \A m \in (n + 1)..Len(l[1]) : ~ CommonPrefix(SubSeq(l[1], 1, m), l)
    IN  SubSeq(l[1], 1, n)

\* The children of a node whose name starts with the token, in child order.
Candidates(node, token) ==
    LET hits == {i \in 1..Len(node.children) :
                    Len(token) <= Len(node.children[i].name)
                    /\ \A j \in 1..Len(token) : node.children[i].name[j] = token[j]}
        \* the k-th smallest index among the hits
        RECURSIVE Nth(_, _)
        Nth(S, k) == LET least == CHOOSE x \in S : \A y \in S : x <= y
                     IN  IF k = 1 THEN least ELSE Nth(S \ {least}, k - 1)
    IN  [k \in 1..Cardinality(hits) |-> node.children[Nth(hits, k)]]

\* The completion of a non-empty token list, as the specification defines it.
RECURSIVE Complete(_, _)
Complete(node, tokens) ==
    LET found == Candidates(node, tokens[1])
        names == [k \in 1..Len(found) |-> found[k].name]
    IN
    IF Len(tokens) > 1
    THEN IF Len(found) = 0
         THEN [kind |-> "NoMatch", names |-> <<>>, fill |-> <<>>]
         ELSE Complete(found[1], Tail(tokens))
    ELSE IF Len(found) = 0
    THEN [kind |-> "NoMatch", names |-> <<>>, fill |-> <<>>]
    ELSE IF Len(found) = 1
    THEN [kind |-> "SingleMatch", names |-> names, fill |-> names[1]]
    ELSE [kind |-> "MultipleMatches", names |-> names,
          fill |-> LongestCommonPrefix(names)]

Help == <<"h", "e", "l", "p">>
Hello == <<"h", "e", "l", "l", "o">>

\* C7: the completion walk of the Tab key gives, for every tree and every
\* non-empty token list, the completion the specification defines: over the
\* commands help and hello, "he" gives both names and the prefix "hel",
\* "help" gives the single match help, and "zz" gives no match.
C7_CompletionWalk ==
    (fn.op = "complete" /\ fn.done) =>
        /\ fn.res = Complete(fn.arg.root, fn.arg.parse)
        /\ fn.arg = [root |-> HelpTree, parse |-> << <<"h", "e">> >>] =>
              fn.res = [kind |-> "MultipleMatches", names |-> <<Help, Hello>>,
                        fill |-> <<"h", "e", "l">>]
        /\ fn.arg = [root |-> HelpTree, parse |-> <<Help>>] =>
              fn.res = [kind |-> "SingleMatch", names |-> <<Help>>, fill |-> Help]
        /\ fn.arg = [root |-> HelpTree, parse |-> << <<"z", "z">> >>] =>
              fn.res.kind = "NoMatch"

\* The walk went down into the first of two commands that match the first
\* token and found its one subcommand.
C7_Witness ==
    /\ fn.op = "complete"
    /\ fn.done
    /\ Len(fn.arg.parse) = 2
    /\ Len(Candidates(fn.arg.root, fn.arg.parse[1])) = 2
    /\ fn.res.kind = "SingleMatch"

\* C8: _lcp gives "" for the empty list, and otherwise the longest string
\* that is a prefix of every string of the list: a prefix of each, and no
\* longer string is one.
C8_LongestCommonPrefix ==
    (fn.op = "_lcp" /\ fn.done) =>
        IF fn.arg = <<>>
        THEN fn.res = <<>>
        ELSE /\ CommonPrefix(fn.res, fn.arg)
             /\ \A m \in (Len(fn.res) + 1)..Len(fn.arg[1]) :
                    ~ CommonPrefix(SubSeq(fn.arg[1], 1, m), fn.arg)
             /\ fn.res = LongestCommonPrefix(fn.arg)

\* _lcp(["abc", "abd", "ab"]) = "ab"
C8_Witness ==
    /\ fn.op = "_lcp"
    /\ fn.done
    /\ fn.arg = << <<"a", "b", "c">>, <<"a", "b", "d">>, <<"a", "b">> >>
    /\ fn.res = <<"a", "b">>


\* The nodes of a tree in depth-first order, a node before its children and
\* the children in their order.
RECURSIVE Preorder(_)
Preorder(node) ==
    <<node>> \o Flatten([i \in 1..Len(node.children) |-> Preorder(node.children[i])])

\* The nodes of a tree level by level, from a level on.
RECURSIVE LevelOrder(_)
LevelOrder(level) ==
    IF level = <<>>
    THEN <<>>
    ELSE level \o LevelOrder(Flatten([i \in 1..Len(level) |-> level[i].children]))

\* The first node of the name in a list of nodes, or nothing.
FirstNamed(nodes, name) ==
    LET named == SelectSeq(nodes, LAMBDA n : n.name = name) IN
    IF named = <<>> THEN <<>> ELSE <<named[1]>>

\* C14 (as the code has it): find(name) goes through the tree depth-first
\* from the node it is called on, a node before its children and the
\* children in their order, and returns the first node of that name, or
\* None when no node has it.
C14_FindDepthFirst ==
    (fn.op = "find" /\ fn.done) =>
        fn.res = FirstNamed(Preorder(fn.arg.root), fn.arg.name)

\* C14 (as stated): find(name) goes through the tree breadth-first and
\* returns the first node of that name in level order, the shallower one
\* when a deeper node of an earlier subtree has the name too.
C14_FindBreadthFirst ==
    (fn.op = "find" /\ fn.done) =>
        fn.res = FirstNamed(LevelOrder(<<fn.arg.root>>), fn.arg.name)

\* find("b") on the tree of a with subcommand b, and b with subcommand a: the
\* deeper b is returned.
C14_Witness ==
    /\ fn.op = "find"
    /\ fn.done
    /\ fn.arg.name = <<"b">>
    /\ fn.arg.root =
         [name |-> <<>>,
          children |-> << add_child(CommandNode(<<"a">>), CommandNode(<<"b">>)),
                          add_child(CommandNode(<<"b">>), CommandNode(<<"a">>)) >>]
    /\ fn.res = <<CommandNode(<<"b">>)>>


-----------------------------------------------------------------------------
(* Properties of the Tab key.                                              *)

\* The Tab key is pressed on a buffer whose tokens complete to the outcome.
TabYields(kind) ==
    /\ pc = "Reading"
    /\ KeyTab
    /\ ShlexSplit(cmd).ok
    /\ TabParse(ShlexSplit(cmd).toks) # <<>>
    /\ Complete(root_node, TabParse(ShlexSplit(cmd).toks)).kind = kind

\* C20: when the completion of the Tab key is a single match, the new
\* buffer tokenizes to the old tokens with the last one replaced by the full
\* name of the matched child, ends with exactly one space, and the cursor is
\* at its end.
C20_SingleMatchFills ==
    [][TabYields("SingleMatch") =>
        LET parse == TabParse(ShlexSplit(cmd).toks)
            name == Complete(root_node, parse).names[1]
        IN  /\ ShlexSplit(cmd').ok
            /\ ShlexSplit(cmd').toks = [parse EXCEPT ![Len(parse)] = name]
            /\ Len(cmd') >= 2
            /\ cmd'[Len(cmd')] = " "
            /\ cmd'[Len(cmd') - 1] # " "
            /\ cmd_idx' = Len(cmd') ]_vars

\* The buffer "qa " with the cursor at its end, longer than what the keys
\* type: "q" was completed to the command qa.
C20_Witness ==
    /\ pc = "Reading"
    /\ hist_idx = -1
    /\ Len(cmd) > MaxLen
    /\ cmd = <<"q", "a", " ">>
    /\ cmd_idx = 3


\* C21: when the completion of the Tab key has several matches, the line is
\* neither committed nor cleared: a non-empty common prefix of the names
\* replaces the last token, with no separator after it and the other tokens
\* kept; with an empty common prefix the buffer is unchanged; the cursor ends
\* at the end of the buffer.
C21_MultipleMatchesFillPrefix ==
    [][TabYields("MultipleMatches") =>
        LET parse == TabParse(ShlexSplit(cmd).toks)
            prefix == LongestCommonPrefix(Complete(root_node, parse).names)
        IN  /\ pc' = "Reading"
            /\ UNCHANGED <<history, cmd_str, cmd_parse, calls>>
            /\ IF prefix # <<>>
               THEN /\ ShlexSplit(cmd').ok
                    /\ ShlexSplit(cmd').toks = [parse EXCEPT ![Len(parse)] = prefix]
                    /\ cmd'[Len(cmd')] # " "
               ELSE cmd' = cmd
            /\ cmd_idx' = Len(cmd') ]_vars

\* Tab was pressed on "  q": the buffer is the common prefix "q" of the
\* commands qa and qq, with the cursor at its end.
C21_Witness ==
    /\ pc = "Reading"
    /\ fn.op = "tab"
    /\ fn.arg.cmd = <<" ", " ", "q">>
    /\ cmd = <<"q">>
    /\ cmd_idx = 1


\* C22: when the completion of the Tab key has no match, at whatever token
\* of the walk, the buffer, the cursor index, the history index and the
\* saved buffer are unchanged and nothing is written to the terminal.
C22_NoMatchChangesNothing ==
    [][TabYields("NoMatch") =>
        UNCHANGED <<cmd, cmd_idx, hist_idx, cmd_cpy, term, pc>>]_vars

\* The buffer "a a" with the cursor at its end, as it was typed: its first
\* token is the command a, which has no subcommand for the second.
C22_Witness ==
    /\ pc = "Reading"
    /\ fn.op = "tab"
    /\ cmd = <<"a", " ", "a">>
    /\ cmd_idx = 3
    /\ fn.arg = [cmd |-> cmd, cmd_idx |-> cmd_idx]
    /\ term = [row |-> DEFAULT_PROMPT \o cmd, col |-> Len(DEFAULT_PROMPT) + 3]
    /\ Complete(root_node, ShlexSplit(cmd).toks).kind = "NoMatch"


\* C23: a Tab key event that fills the buffer in redraws the whole line: on a
\* terminal showing the buffer, the text after the prompt is then the new
\* buffer, with no character of the old line left over, and the cursor of
\* the terminal is at the new cursor index, whatever the buffer and the
\* cursor were.
C23_TabRedrawsLine ==
    [][(Consistent /\ (TabYields("SingleMatch") \/ TabYields("MultipleMatches")))
        => Consistent']_vars


(***************************************************************************)
(* Properties of the prompt session as a whole.                            *)
(***************************************************************************)

\* A step that enters _prompt: the first call of run, the next turn of its
\* loop after a dispatch, or a continue after an empty or unsplittable line.
SessionStarts ==
    \/ RunStart
    \/ LoopBack
    \/ (pc = "Reading" /\ KeyReturn /\ pc' = "Reading")

\* The locals of _prompt as its head leaves them.
FreshEditor ==
    /\ cmd = <<>>
    /\ cmd_idx = 0
    /\ cmd_cpy = <<>>
    /\ hist_idx = -1

\* C24: every prompt session starts with an empty buffer, cursor 0, an empty
\* saved buffer and history index -1, however the previous session ended; and
\* the history changes only in a step where run commits a non-empty line, by
\* run's push of that line.
C24_FreshSessionAndHistory ==
    [][/\ SessionStarts => FreshEditor'
       /\ history' # history =>
            /\ pc = "Reading"
            /\ KeyReturn
            /\ Len(Strip(cmd)) > 0
            /\ history' = HistPush(history, Strip(cmd))]_vars

\* A session that started afresh after an earlier session committed a line
\* that run pushed to the history but could not split.
C24_Witness ==
    /\ pc = "Reading"
    /\ FreshEditor
    /\ history # <<>>
    /\ cmd_str = history[1]
    /\ ~ ShlexSplit(cmd_str).ok


\* C25: in a prompt session the buffer is never longer than MAX_CMD_LEN,
\* whatever keys were pressed, Tab and the history keys included.
C25_BufferWithinLimit ==
    pc = "Reading" => Len(cmd) <= MAX_CMD_LEN


\* C26: Tab never ends the prompt session, whatever the buffer holds, a
\* buffer that cannot be split into tokens included: after the key the
\* session is still reading, no exception is in flight, the buffer is still
\* a string and the cursor lies within it.
C26_TabKeepsSession ==
    [][(pc = "Reading" /\ KeyTab) =>
          /\ pc' = "Reading"
          /\ exc' = NoExc
          /\ cmd' # Dead
          /\ cmd_idx' \in 0..Len(cmd')]_vars


\* C27: add_flag raises DuplicateArgumentError exactly when a registered flag
\* was given the same name or the same metaname. With one flag registered, a
\* second call with its name or its metaname raises and changes nothing, and
\* a second call with another name and another metaname registers the flag.
C27_FlagDuplicates ==
    [][\A name \in ArgNames, metaname \in Metanames :
          (/\ fn.op = "add_flag"
           /\ Len(command_parser.flags) = 1
           /\ add_flag(name, metaname)) =>
             IF name = fn.arg.name \/ metaname = fn.arg.metaname
             THEN /\ exc' = Raise("DuplicateArgumentError",
                                  <<name, command_parser.name>>)
                  /\ command_parser' = command_parser
             ELSE /\ exc' = NoExc
                  /\ Len(command_parser'.flags) = 2
                  /\ command_parser'.flags[2].name = name]_vars

=============================================================================
